---- MODULE Spec2Model ----
(***************************************************************************)
(* Simulation drivers of simphony (simphony/simulators.py): Simulator,     *)
(* SweepSimulator and MonteCarloSweepSimulator, over a circuit whose       *)
(* reduced scattering matrix is supplied by the component model protocol.  *)
(*                                                                         *)
(* Numbers are exact rationals <<n, d>> (d > 0, lowest terms).  Matrix     *)
(* entries and power ratios are kept as terms that name the frequency, the *)
(* pin pair, the matrix method and the parameter draw they were computed   *)
(* from, so that a ratio can be traced back to the frequency it belongs to.*)
(***************************************************************************)
EXTENDS Integers, Sequences, FiniteSets, TLC

\* ------------------------------------------------------------------ bounds
\* Wavelength inputs are k / WlDen for 0 < k < WlDen (all below 1).
WlDen == 4
\* Frequency inputs are the integers 1..MaxFreq (all at least 1).
MaxFreq == 2
\* SweepSimulator sample counts are 1..MaxNum.
MaxNum == 3
\* Monte-Carlo calls run 0..MaxRuns trials.
MaxRuns == 3
\* Components of the circuit are 1..NumComponents.
NumComponents == 2
\* No component is regenerated more than MaxDraw times in a behaviour.
MaxDraw == 4

\* Speed of light in the model's unit system (simphony.tools uses SI); the
\* wavelength inputs stay below 1 and the frequency inputs at or above 1, as
\* the mode detection of SweepSimulator.__init__ expects.
SpeedOfLight == 12

\* ------------------------------------------------------- exact rationals
Abs(n) == IF n < 0 THEN -n ELSE n

RECURSIVE GCD(_, _)
GCD(a, b) == IF b = 0 THEN a ELSE GCD(b, a % b)

Rat(n, d) == LET g == GCD(Abs(n), d) IN <<n \div g, d \div g>>

RAdd(a, b) == Rat(a[1] * b[2] + b[1] * a[2], a[2] * b[2])
RSub(a, b) == Rat(a[1] * b[2] - b[1] * a[2], a[2] * b[2])
RMul(a, b) == Rat(a[1] * b[1], a[2] * b[2])
\* a / b for b > 0
RDiv(a, b) == Rat(a[1] * b[2], a[2] * b[1])
RLess(a, b) == a[1] * b[2] < b[1] * a[2]
RLeq(a, b) == a[1] * b[2] <= b[1] * a[2]
RPos(a) == a[1] > 0
RZero == <<0, 1>>
ROne == <<1, 1>>

\* ------------------------------------------------------ array helpers
\* np.flip on a one-dimensional array
Flip(s) == [k \in 1..Len(s) |-> s[Len(s) + 1 - k]]

HasPin(pinlist, p) == \E k \in 1..Len(pinlist) : pinlist[k] = p

\* PinList.index: position of pin p in the pin list
Index(pinlist, p) == CHOOSE k \in 1..Len(pinlist) : pinlist[k] = p

\* np.linspace(a, b, n): n evenly spaced samples, both ends included
Linspace(a, b, n) ==
    [k \in 1..n |->
        IF n = 1 THEN a
        ELSE RAdd(a, RDiv(RMul(Rat(k - 1, 1), RSub(b, a)), Rat(n - 1, 1)))]

\* simphony.tools.wl2freq / freq2wl
wl2freq(wl) == RDiv(Rat(SpeedOfLight, 1), wl)
freq2wl(f) == RDiv(Rat(SpeedOfLight, 1), f)

\* ------------------------------------------------------------------ state
VARIABLES
    class,              \* the class of the simulator object
    start, stop, num,   \* SweepSimulator.__init__ arguments
    mode, freqs,        \* self.mode, self.freqs
    subPins,            \* pin list of the reduced subcircuit, in matrix order
    inConn, outConn,    \* self.pins["input"]._connection, ["output"]._connection
    draw,               \* per component: its current Monte-Carlo parameter draw
    pc,                 \* "idle", or the position inside MonteCarloSweepSimulator.simulate
    call,               \* the simulate call in progress or last finished
    status,             \* outcome of that call
    ret,                \* (freqs, power_ratios) returned by Simulator/SweepSimulator
    results,            \* the list built and returned by MonteCarloSweepSimulator
    reductions,         \* to_subcircuit calls made by that call
    i, j,               \* Monte-Carlo loop index, and component index of the inner loop
    drawAtBegin,        \* draw when the Monte-Carlo call began
    trialLog            \* per finished trial: the method and the draw it read

vars == <<class, start, stop, num, mode, freqs, subPins, inConn, outConn, draw, pc, call,
          status, ret, results, reductions, i, j, drawAtBegin, trialLog>>

\* Python None: a pin without a connection
None == "None"
\* the free pins of the circuit, which the reduction exposes
Pins == {"p1", "p2", "p3"}
\* the orders in which the reduction may list the circuit's free pins
PinOrders == {<<"p1", "p2", "p3">>, <<"p3", "p1", "p2">>}
Components == 1..NumComponents
Methods == {"s_parameters", "monte_carlo_s_parameters"}

Wavelengths == {Rat(k, WlDen) : k \in 1..(WlDen - 1)}
Frequencies == {Rat(k, 1) : k \in 1..MaxFreq}
\* grids a caller hands to Simulator.simulate(freqs=...)
AscendingGrid == [k \in 1..MaxFreq |-> Rat(k, 1)]
GridArgs == {AscendingGrid, Flip(AscendingGrid)}

\* ------------------------------------------- component model protocol
\* One entry of the reduced scattering matrix: the complex response from pin
\* p to pin q at frequency f, under the nominal parameters or under the
\* current Monte-Carlo draw d.
MatrixEntry(f, p, q, method, d) ==
    [freq |-> f, row |-> p, col |-> q, method |-> method,
     params |-> IF method = "s_parameters" THEN <<>> ELSE [c \in Components |-> d[c]]]

\* subcircuit.s_parameters(freqs) / subcircuit.monte_carlo_s_parameters(freqs):
\* one matrix per frequency, indexed by pin position
SParameters(method, fs, pinlist, d) ==
    [k \in 1..Len(fs) |->
        [a \in 1..Len(pinlist) |->
            [b \in 1..Len(pinlist) |-> MatrixEntry(fs[k], pinlist[a], pinlist[b], method, d)]]]

\* np.abs(s) ** 2, then np.log10 when dB is set
PowerRatio(entry, dB) == [abs2of |-> entry, log10 |-> dB]

\* ----------------------------------------------------------- Simulator
IsConnected(conn) == conn # None

Generate_BothUnconnected(given, fs, method, ic, oc, pinlist, d) ==
    IF ~IsConnected(ic) /\ ~IsConnected(oc)
    THEN [status |-> "RuntimeError", reductions |-> 0, s_params |-> <<>>, pins |-> <<>>]
    ELSE [status |-> "ok", reductions |-> 1,
          s_params |-> SParameters(method, fs, pinlist, d), pins |-> pinlist]

\* Simulator._generate.  A call that reaches the subcircuit with freqs = None
\* (neither freq nor freqs given) is past the reduction; what the subcircuit
\* does with None is not in this file, and is recorded as a failure inside it.
Generate(given, fs, method, ic, oc, pinlist, d) ==
    IF ~IsConnected(ic) \/ ~IsConnected(oc)
    THEN [status |-> "RuntimeError", reductions |-> 0, s_params |-> <<>>, pins |-> <<>>]
    ELSE IF ~given
    THEN [status |-> "SubcircuitError", reductions |-> 1, s_params |-> <<>>, pins |-> pinlist]
    ELSE [status |-> "ok", reductions |-> 1,
          s_params |-> SParameters(method, fs, pinlist, d), pins |-> pinlist]

SelectFreqs_FreqsFirst(freq, hasFreqs, freqsArg) ==
    IF hasFreqs THEN [given |-> TRUE, grid |-> freqsArg]
    ELSE [given |-> freq # RZero, grid |-> <<freq>>]

\* `if freq: freqs = np.array(freq)`
SelectFreqs(freq, hasFreqs, freqsArg) ==
    IF freq # RZero THEN [given |-> TRUE, grid |-> <<freq>>]
    ELSE [given |-> hasFreqs, grid |-> freqsArg]

Extract_Swapped(power, input, output) == [k \in 1..Len(power) |-> power[k][output][input]]

\* power_ratios[:, input, output]
Extract(power, input, output) == [k \in 1..Len(power) |-> power[k][input][output]]

\* Simulator.simulate
Simulate(dB, freq, hasFreqs, freqsArg, method, ic, oc, pinlist, d) ==
    LET sel == SelectFreqs(freq, hasFreqs, freqsArg)
        gen == Generate(sel.given, sel.grid, method, ic, oc, pinlist, d)
    IN  IF gen.status # "ok"
        THEN [status |-> gen.status, reductions |-> gen.reductions, x |-> <<>>, y |-> <<>>]
        ELSE LET power == [k \in 1..Len(gen.s_params) |->
                             [a \in 1..Len(gen.pins) |->
                               [b \in 1..Len(gen.pins) |->
                                  PowerRatio(gen.s_params[k][a][b], dB)]]]
                 input == Index(gen.pins, ic)
                 output == Index(gen.pins, oc)
             IN  IF ~HasPin(gen.pins, ic) \/ ~HasPin(gen.pins, oc)
                 THEN \* list.index raises ValueError for a pin not in the list
                      [status |-> "ValueError", reductions |-> gen.reductions,
                       x |-> <<>>, y |-> <<>>]
                 ELSE [status |-> "ok", reductions |-> gen.reductions,
                       x |-> sel.grid, y |-> Extract(power, input, output)]

\* ------------------------------------------------------ SweepSimulator
\* SweepSimulator.__init__: self.mode
SweepMode(st) == IF RLess(st, ROne) THEN "wl" ELSE "freq"

SweepFreqs_SwappedEnds(st, sp, n) ==
    IF SweepMode(st) = "wl"
    THEN Linspace(wl2freq(sp), wl2freq(st), n)
    ELSE Linspace(sp, st, n)

\* SweepSimulator.__init__: self.freqs
SweepFreqs(st, sp, n) ==
    IF SweepMode(st) = "wl"
    THEN Linspace(wl2freq(st), wl2freq(sp), n)
    ELSE Linspace(st, sp, n)

SweepReturn_FlipBoth(m, fs, power) ==
    IF m = "wl"
    THEN [x |-> Flip([k \in 1..Len(fs) |-> freq2wl(fs[k])]), y |-> Flip(power)]
    ELSE [x |-> fs, y |-> power]

\* the return statements of SweepSimulator.simulate
SweepReturn(m, fs, power) ==
    IF m = "wl"
    THEN [x |-> [k \in 1..Len(fs) |-> freq2wl(fs[k])], y |-> Flip(power)]
    ELSE [x |-> fs, y |-> power]

\* SweepSimulator.simulate
SweepSimulate(dB, method, m, grid, ic, oc, pinlist, d) ==
    LET r == Simulate(dB, RZero, TRUE, grid, method, ic, oc, pinlist, d)
    IN  IF r.status # "ok" THEN r
        ELSE LET out == SweepReturn(m, r.x, r.y)
             IN  [status |-> "ok", reductions |-> r.reductions, x |-> out.x, y |-> out.y]

\* --------------------------------------------- MonteCarloSweepSimulator
TrialMethod_Inverted(n) == IF n # 0 THEN "s_parameters" ELSE "monte_carlo_s_parameters"

\* `"monte_carlo_s_parameters" if i else "s_parameters"`
TrialMethod(n) == IF n # 0 THEN "monte_carlo_s_parameters" ELSE "s_parameters"

AppendResult_Prepend(rs, r) == <<r>> \o rs

\* `results.append(...)`
AppendResult(rs, r) == Append(rs, r)

\* component.regenerate_monte_carlo_parameters(): a fresh draw
Regenerate(d, c) == [d EXCEPT ![c] = @ + 1]

\* ------------------------------------------------------------------ Init
NoCall == [kind |-> "none", dB |-> FALSE, freq |-> RZero, hasFreqs |-> FALSE,
           freqsArg |-> <<>>, method |-> "s_parameters", runs |-> 0]
NoRet == [x |-> <<>>, y |-> <<>>]

Init ==
    /\ class \in {"Simulator", "SweepSimulator", "MonteCarloSweepSimulator"}
    /\ IF class = "Simulator"
       THEN \* Simulator has no __init__ of its own: the sweep attributes do not exist
            /\ start = RZero /\ stop = RZero /\ num = 0
            /\ mode = "none"
            /\ freqs = <<>>
       ELSE /\ start \in Wavelengths \cup Frequencies
            /\ stop \in Wavelengths \cup Frequencies
            /\ num \in 1..MaxNum
            /\ mode = SweepMode(start)
            /\ freqs = SweepFreqs(start, stop, num)
    /\ subPins \in PinOrders
    /\ inConn \in Pins \cup {None}
    /\ outConn \in (Pins \cup {None}) \ (Pins \cap {inConn})
    /\ draw = [c \in Components |-> 0]
    /\ pc = "idle"
    /\ call = NoCall
    /\ status = "none"
    /\ ret = NoRet
    /\ results = <<>>
    /\ reductions = 0
    /\ i = 0
    /\ j = 0
    /\ drawAtBegin = [c \in Components |-> 0]
    /\ trialLog = <<>>

\* --------------------------------------------------------------- actions
\* Simulator.simulate(dB=, freq=, freqs=, s_parameters_method=)
CallSimulator ==
    /\ class = "Simulator"
    /\ pc = "idle"
    /\ \E dB \in BOOLEAN, freq \in {RZero} \cup Frequencies, hasFreqs \in BOOLEAN,
          fa \in GridArgs, method \in Methods :
        LET freqsArg == IF hasFreqs THEN fa ELSE <<>>
            r == Simulate(dB, freq, hasFreqs, freqsArg, method, inConn, outConn, subPins, draw)
        IN  /\ (~hasFreqs => fa = AscendingGrid)   \* freqs omitted: one case, not one per grid
            /\ call' = [kind |-> "Simulator", dB |-> dB, freq |-> freq, hasFreqs |-> hasFreqs,
                        freqsArg |-> freqsArg, method |-> method, runs |-> 0]
            /\ status' = r.status
            /\ reductions' = r.reductions
            /\ ret' = [x |-> r.x, y |-> r.y]
    /\ results' = <<>>
    /\ trialLog' = <<>>
    /\ UNCHANGED <<class, start, stop, num, mode, freqs, subPins, inConn, outConn, draw, pc,
                   i, j, drawAtBegin>>

\* SweepSimulator.simulate(dB=, s_parameters_method=)
CallSweep ==
    /\ class = "SweepSimulator"
    /\ pc = "idle"
    /\ \E dB \in BOOLEAN, method \in Methods :
        LET r == SweepSimulate(dB, method, mode, freqs, inConn, outConn, subPins, draw)
        IN  /\ call' = [kind |-> "Sweep", dB |-> dB, freq |-> RZero, hasFreqs |-> TRUE,
                        freqsArg |-> freqs, method |-> method, runs |-> 0]
            /\ status' = r.status
            /\ reductions' = r.reductions
            /\ ret' = [x |-> r.x, y |-> r.y]
    /\ results' = <<>>
    /\ trialLog' = <<>>
    /\ UNCHANGED <<class, start, stop, num, mode, freqs, subPins, inConn, outConn, draw, pc,
                   i, j, drawAtBegin>>

\* MonteCarloSweepSimulator.simulate(runs, dB=): `results = []`, loop entry
MCBegin ==
    /\ class = "MonteCarloSweepSimulator"
    /\ pc = "idle"
    /\ \E runs \in 0..MaxRuns, dB \in BOOLEAN :
        /\ \A c \in Components : draw[c] + runs <= MaxDraw
        /\ call' = [kind |-> "MonteCarlo", dB |-> dB, freq |-> RZero, hasFreqs |-> TRUE,
                    freqsArg |-> freqs, method |-> "s_parameters", runs |-> runs]
    /\ status' = "running"
    /\ results' = <<>>
    /\ trialLog' = <<>>
    /\ reductions' = 0
    /\ ret' = NoRet
    /\ i' = 0
    /\ j' = 0
    /\ drawAtBegin' = draw
    /\ pc' = "loop"
    /\ UNCHANGED <<class, start, stop, num, mode, freqs, subPins, inConn, outConn, draw>>

\* one `super().simulate(...)` of the loop, and `results.append`
MCTrial ==
    /\ pc = "loop"
    /\ i < call.runs
    /\ LET method == TrialMethod(i)
           r == SweepSimulate(call.dB, method, mode, freqs, inConn, outConn, subPins, draw)
       IN  /\ reductions' = reductions + r.reductions
           /\ IF r.status = "ok"
              THEN /\ results' = AppendResult(results, [x |-> r.x, y |-> r.y])
                   /\ trialLog' = Append(trialLog, [method |-> method, draw |-> draw])
                   /\ status' = status
                   /\ pc' = "regen"
                   /\ j' = 1
              ELSE /\ status' = r.status
                   /\ pc' = "idle"
                   /\ UNCHANGED <<results, trialLog, j>>
    /\ UNCHANGED <<class, start, stop, num, mode, freqs, subPins, inConn, outConn, draw, call,
                   ret, i, drawAtBegin>>

MCRegen_LeavesLoopEarly ==
    /\ pc = "regen"
    /\ draw' = Regenerate(draw, j)
    /\ j' = 0
    /\ i' = i + 1
    /\ pc' = "loop"
    /\ UNCHANGED <<class, start, stop, num, mode, freqs, subPins, inConn, outConn, call,
                   status, ret, results, reductions, drawAtBegin, trialLog>>

MCRegen_NotAfterLast ==
    /\ pc = "regen"
    /\ draw' = IF i + 1 < call.runs THEN Regenerate(draw, j) ELSE draw
    /\ IF j < NumComponents
       THEN /\ j' = j + 1
            /\ UNCHANGED <<pc, i>>
       ELSE /\ j' = 0
            /\ i' = i + 1
            /\ pc' = "loop"
    /\ UNCHANGED <<class, start, stop, num, mode, freqs, subPins, inConn, outConn, call,
                   status, ret, results, reductions, drawAtBegin, trialLog>>

\* one iteration of `for component in self.circuit`
MCRegen ==
    /\ pc = "regen"
    /\ draw' = Regenerate(draw, j)
    /\ IF j < NumComponents
       THEN /\ j' = j + 1
            /\ UNCHANGED <<pc, i>>
       ELSE /\ j' = 0
            /\ i' = i + 1
            /\ pc' = "loop"
    /\ UNCHANGED <<class, start, stop, num, mode, freqs, subPins, inConn, outConn, call, status,
                   ret, results, reductions, drawAtBegin, trialLog>>

\* `return results`
MCReturn ==
    /\ pc = "loop"
    /\ i >= call.runs
    /\ status' = "ok"
    /\ pc' = "idle"
    /\ UNCHANGED <<class, start, stop, num, mode, freqs, subPins, inConn, outConn, draw, call,
                   ret, results, reductions, i, j, drawAtBegin, trialLog>>

Next == CallSimulator \/ CallSweep \/ MCBegin \/ MCTrial \/ MCRegen \/ MCReturn

Spec == Init /\ [][Next]_vars

\* ---------------------------------------------------------------- claims
Connected == IsConnected(inConn) /\ IsConnected(outConn)
NonDecreasing(s) == \A k \in 1..(Len(s) - 1) : RLeq(s[k], s[k + 1])
NonIncreasing(s) == \A k \in 1..(Len(s) - 1) : RLeq(s[k + 1], s[k])
Increasing(s) == \A k \in 1..(Len(s) - 1) : RLess(s[k], s[k + 1])
Decreasing(s) == \A k \in 1..(Len(s) - 1) : RLess(s[k + 1], s[k])
AllPositive(s) == \A k \in 1..Len(s) : RPos(s[k])

SweepDone == class = "SweepSimulator" /\ call.kind = "Sweep" /\ status = "ok"
SimulatorDone == class = "Simulator" /\ call.kind = "Simulator"
MCDone == class = "MonteCarloSweepSimulator" /\ call.kind = "MonteCarlo"
              /\ pc = "idle" /\ status = "ok"

\* the power ratio the reduced circuit yields from the input pin to the output
\* pin at frequency f
RatioAt(f, method, dB, d) == PowerRatio(MatrixEntry(f, inConn, outConn, method, d), dB)

\* the draw every component holds after n regenerations since the call began
DrawAfter(n) == [c \in Components |-> drawAtBegin[c] + n]

\* what a direct SweepSimulator.simulate on this circuit and grid returns
DirectSweep(dB, method, d) ==
    LET r == SweepSimulate(dB, method, mode, freqs, inConn, outConn, subPins, d)
    IN  [x |-> r.x, y |-> r.y]

\* C1: in wavelength mode every returned power ratio is the one the circuit
\* yields at the frequency speed_of_light / wavelength of the wavelength it is
\* paired with.
C1_RatioPairedWithItsWavelength ==
    (SweepDone /\ mode = "wl") =>
        \A k \in 1..Len(ret.x) :
            ret.y[k] = RatioAt(wl2freq(ret.x[k]), call.method, call.dB, draw)

\* C2 as stated: in wavelength mode the returned wavelengths are ascending,
\* whatever start, stop and num are.
C2_WavelengthsAscending ==
    (SweepDone /\ mode = "wl") => NonDecreasing(ret.x)

\* C2 amended: in wavelength mode with start <= stop the returned wavelengths
\* are ascending (strictly when start < stop), running from start to stop.
C2_WavelengthsAscendingWhenOrdered ==
    (SweepDone /\ mode = "wl" /\ RLeq(start, stop)) =>
        /\ NonDecreasing(ret.x)
        /\ (RLess(start, stop) => Increasing(ret.x))
        /\ Len(ret.x) = num
        /\ ret.x[1] = start
        /\ (num > 1 => ret.x[num] = stop)

C2_Witness ==
    SweepDone /\ mode = "wl" /\ RLess(start, stop) /\ Len(ret.x) >= 3

\* C3: trial 0 of a Monte-Carlo call equals what a direct nominal
\* SweepSimulator.simulate returns on the same circuit and grid, whatever the
\* components' current draw is.
C3_TrialZeroIsNominalSweep ==
    (class = "MonteCarloSweepSimulator" /\ Len(results) >= 1) =>
        results[1] = DirectSweep(call.dB, "s_parameters", draw)

C3_Witness ==
    /\ MCDone /\ call.runs >= 2 /\ Len(results) = call.runs
    /\ drawAtBegin[1] >= 1 /\ Len(freqs) >= 2

\* C4: a Monte-Carlo call returns exactly `runs` results, the k-th being trial
\* k's: trial 0 by the nominal method, every later trial by the Monte-Carlo
\* method under the draw that trial found.
C4_OneResultPerTrialInOrder ==
    MCDone =>
        /\ Len(results) = call.runs
        /\ \A k \in 1..call.runs :
            LET method == IF k = 1 THEN "s_parameters" ELSE "monte_carlo_s_parameters"
            IN  /\ trialLog[k].method = method
                /\ results[k] = DirectSweep(call.dB, method, DrawAfter(k - 1))

C4_Witness == MCDone /\ call.runs = MaxRuns /\ Len(results) = MaxRuns /\ Len(freqs) >= 2

\* C5: between the matrix reads of consecutive trials every component is
\* regenerated, a trial reads only when the regeneration loop is complete, and
\* consecutive trials never read the same draw.
C5_RegeneratedBetweenTrials ==
    class = "MonteCarloSweepSimulator" =>
        /\ \A k \in 2..Len(trialLog) : \A c \in Components :
               trialLog[k].draw[c] = trialLog[k - 1].draw[c] + 1
        /\ (pc = "loop" => draw = DrawAfter(i))
        /\ (pc = "regen" => \A c \in Components :
               draw[c] = drawAtBegin[c] + (IF c < j THEN i + 1 ELSE i))

C5_Witness ==
    /\ class = "MonteCarloSweepSimulator" /\ Len(trialLog) >= 3
    /\ trialLog[2].method = "monte_carlo_s_parameters"
    /\ trialLog[3].method = "monte_carlo_s_parameters"
    /\ trialLog[3].draw # trialLog[2].draw

CallEnded ==
    /\ pc = "idle"
    /\ call.kind # "none"
    /\ (call.kind = "MonteCarlo" => call.runs >= 1)

\* C7 as stated: with the input or the output pin unconnected every simulate
\* call fails with UnconnectedError before any reduction; with both connected
\* it does not.
C7_UnconnectedError ==
    (pc = "idle" /\ call.kind # "none") =>
        /\ (~Connected => status = "UnconnectedError" /\ reductions = 0)
        /\ (Connected => status # "UnconnectedError")

\* C7 amended: the error is a RuntimeError, and a Monte-Carlo call meets it
\* only when runs >= 1; it precedes every reduction, result and regeneration.
C7_RuntimeErrorWhenUnconnected ==
    CallEnded =>
        /\ (~Connected =>
               /\ status = "RuntimeError"
               /\ reductions = 0
               /\ ret = NoRet /\ results = <<>>
               /\ (call.kind = "MonteCarlo" => draw = drawAtBegin))
        /\ (Connected => status # "RuntimeError")

C7_Witness ==
    /\ CallEnded /\ status = "RuntimeError" /\ reductions = 0
    /\ IsConnected(inConn) /\ ~IsConnected(outConn)

\* the reduced matrix entry at [k, i, o] for the returned grid
EntryAt(k) ==
    SParameters(call.method, ret.x, subPins, draw)[k][Index(subPins, inConn)][Index(subPins, outConn)]

C9_GridIncreasing ==
    class # "Simulator" => AllPositive(freqs) /\ NonDecreasing(freqs)

\* C9 amended: for 0 < start <= stop self.freqs holds num positive frequencies,
\* non-decreasing in frequency mode and non-increasing in wavelength mode
\* (strictly when start < stop).
C9_GridMonotone ==
    (class # "Simulator" /\ RPos(start) /\ RLeq(start, stop)) =>
        /\ Len(freqs) = num
        /\ AllPositive(freqs)
        /\ (mode = "freq" => NonDecreasing(freqs) /\ freqs[1] = start)
        /\ (mode = "wl" => NonIncreasing(freqs) /\ freqs[1] = wl2freq(start))
        /\ (RLess(start, stop) =>
               IF mode = "wl" THEN Decreasing(freqs) ELSE Increasing(freqs))

C9_Witness ==
    /\ class = "SweepSimulator" /\ mode = "wl" /\ RLess(start, stop)
    /\ Len(freqs) >= 3 /\ RLess(freqs[3], freqs[1])

\* C10: a successful Monte-Carlo call of n runs regenerates every component
\* exactly n times, once after each trial and never before trial 0; n = 0
\* returns the empty list and regenerates nothing.
C10_RegeneratedOncePerTrial ==
    MCDone =>
        /\ draw = DrawAfter(call.runs)
        /\ \A k \in 1..Len(trialLog) : trialLog[k].draw = DrawAfter(k - 1)
        /\ (call.runs >= 1 => draw # drawAtBegin)
        /\ (call.runs = 0 => results = <<>> /\ draw = drawAtBegin)

C10_Witness ==
    /\ MCDone /\ call.runs >= 2 /\ Len(trialLog) = call.runs
    /\ draw # drawAtBegin /\ drawAtBegin[1] >= 1

====
